---- MODULE Spec2Model ----
(***************************************************************************)
(* NyayaAI ingestion-to-index pipeline.                                    *)
(*                                                                         *)
(*   backend/app/services/embedding_service.py  EmbeddingService           *)
(*   backend/app/rag/ingest.py                  load_pdfs, chunk_documents,*)
(*                                              build_faiss_index,         *)
(*                                              run_ingestion              *)
(*                                                                         *)
(* Three specifications share the variables:                               *)
(*   Spec        one ingestion process: run_ingestion / build_faiss_index  *)
(*               runs one after the other over a changing PDF directory,   *)
(*               writing the three artifacts of the index directory;       *)
(*   SpecReader  Spec plus a query-time reader of the index directory;     *)
(*   SpecEmbed   NThreads threads calling embed_query / embed_texts on the *)
(*               shared EmbeddingService.                                  *)
(***************************************************************************)
EXTENDS Integers, Sequences, FiniteSets, TLC

\* ---------------------------------------------------------------- bounds
NThreads == 2       \* threads calling the embedding service concurrently
MaxBatch == 1       \* longest batch a thread passes to embed_texts
MaxFiles == 2       \* file names the PDF directory can hold
MaxStem == 6        \* longest file-name stem _parse_filename_metadata is given
MaxText == 6        \* longest document text the splitter is given
CHUNK_SIZE == 4     \* settings.CHUNK_SIZE, scaled to the texts
CHUNK_OVERLAP == 1  \* settings.CHUNK_OVERLAP, scaled to the texts

\* ------------------------------------------------------------- constants
None == 0           \* self._model = None: no model handle
PipelineThread == 0 \* the thread running the ingestion pipeline

QueryThreads == 1..NThreads
Threads == {PipelineThread} \cup QueryThreads
FileNames == 1..MaxFiles     \* f stands for the f-th name in sorted order
Artifacts == {"index.faiss", "texts.npy", "metadatas.npy"}

VARIABLES
    \* EmbeddingService (the singleton instance)
    _model,      \* self._model: None or the handle of the loaded model
    loads,       \* number of TextEmbedding(...) constructions that completed
    tpc,         \* per thread: position inside embed_texts / model
    batch,       \* per thread: the texts argument of embed_texts
    local,       \* per thread: the handle its TextEmbedding(...) returned,
                 \* until it is stored
    got,         \* per thread: the handle the model property returned,
                 \* until embed has used it
    result,      \* per thread: the list embed_texts returned
    failed,      \* per thread: its previous call ended with an exception
    \* the PDF directory and the index directory
    dir_exists,  \* pdf_path.exists()
    pdf_dir,     \* file name -> what the file holds
    out_exists,  \* the index directory exists
    out_dir,     \* artifact -> [present, fresh, data]; fresh: written
                 \* by the call that is running
    \* one ingestion process
    pc,          \* position of the pipeline
    entry,       \* the function the process was entered through
    documents,   \* run_ingestion: documents
    texts,       \* chunk texts
    metadatas,   \* chunk metadata records
    embeddings,  \* build_faiss_index: embeddings
    \* history of the previous run, for the rerun comparison
    last_ok,     \* the previous run was a completed run_ingestion and the
                 \* PDF directory has not changed since
    prev,        \* what the index directory held when this run started
    \* a reader of the index directory
    seen,        \* artifact -> what the reader found when it read it
    \* the class EmbeddingService and the module embedding_service.py
    _instance,   \* cls._instance: None or the instance
    _lock,       \* cls._lock: None or the thread that holds it
    slots,       \* the instances that have the attribute _model
    created,     \* number of instances super().__new__(cls) has made
    inst,        \* per thread: what its EmbeddingService() returned
    embedding_service,  \* the module-level name of line 80
    \* one call of a function of ingest.py on its own
    fpc,         \* position of the call
    arg,         \* its argument
    ret          \* what it returned

svc_vars == <<_model, loads, tpc, batch, local, got, result, failed>>
disk_vars == <<dir_exists, pdf_dir, out_exists, out_dir>>
run_vars == <<pc, entry, documents, texts, metadatas, embeddings>>
hist_vars == <<last_ok, prev>>
reader_vars == <<seen>>
cls_vars == <<_instance, _lock, slots, created, inst, embedding_service>>
fn_vars == <<fpc, arg, ret>>
ext_vars == <<cls_vars, fn_vars>>
vars == <<svc_vars, disk_vars, run_vars, hist_vars, reader_vars, ext_vars>>

\* ===================================================== EmbeddingService
\* A text is a pair: <<0, i>> is the i-th query text, <<c, k>> (c >= 1) is
\* the k-th chunk the splitter cuts from the document text c.
QueryText(i) == <<0, i>>

\* The batches a query thread passes: the empty batch and the batches of
\* n distinct texts, n <= MaxBatch.
Batches == {[i \in 1..n |-> QueryText(i)] : n \in 0..MaxBatch}

\* model.embed(texts): one vector per text, in input order, computed by
\* the model whose handle is h.
EmbedWith(h, ts) == [i \in 1..Len(ts) |-> [model |-> h, text |-> ts[i]]]

\* What a failed TextEmbedding(...) leaves in self._model: the assignment
\* of line 45 never runs, so the attribute keeps its value.
FailedLoadPoisons(m) == -1

ModelAfterFailedLoad(m) == m

SvcInit ==
    /\ _model = None
    /\ loads = 0
    /\ tpc = [t \in Threads |-> "idle"]
    /\ batch = [t \in Threads |-> <<>>]
    /\ local = [t \in Threads |-> None]
    /\ got = [t \in Threads |-> None]
    /\ result = [t \in Threads |-> <<>>]
    /\ failed = [t \in Threads |-> FALSE]

\* A query thread calls embed_texts(b).
CallEmbedTexts(t) ==
    /\ tpc[t] = "idle"
    /\ \E b \in Batches :
         batch' = [batch EXCEPT ![t] = b]
    /\ tpc' = [tpc EXCEPT ![t] = "embed_texts"]
    /\ local' = [local EXCEPT ![t] = None]
    /\ got' = [got EXCEPT ![t] = None]
    /\ result' = [result EXCEPT ![t] = <<>>]
    /\ UNCHANGED <<_model, loads, failed>>

\* A query thread calls embed_query(query), line 76: it is
\* embed_texts([query]), of whose result the caller gets element [0].
CallEmbedQuery(t) ==
    /\ tpc[t] = "idle"
    /\ batch' = [batch EXCEPT ![t] = <<QueryText(1)>>]
    /\ tpc' = [tpc EXCEPT ![t] = "embed_texts"]
    /\ local' = [local EXCEPT ![t] = None]
    /\ got' = [got EXCEPT ![t] = None]
    /\ result' = [result EXCEPT ![t] = <<>>]
    /\ UNCHANGED <<_model, loads, failed>>

\* embed_texts, line 59: "if not texts", true of the empty list only.
NeverEmpty(ts) == FALSE

not_texts(ts) == ts = <<>>

\* embed_texts, lines 59-60: the empty batch returns [] at once.
EmbedTextsEmpty(t) ==
    /\ tpc[t] = "embed_texts"
    /\ not_texts(batch[t])
    /\ result' = [result EXCEPT ![t] = <<>>]
    /\ tpc' = [tpc EXCEPT ![t] = "returned"]
    /\ UNCHANGED <<_model, loads, batch, local, got, failed>>

\* embed_texts, line 63: a non-empty batch evaluates self.model.
EmbedTextsEnter(t) ==
    /\ tpc[t] = "embed_texts"
    /\ ~not_texts(batch[t])
    /\ tpc' = [tpc EXCEPT ![t] = "model_check"]
    /\ UNCHANGED <<_model, loads, batch, local, got, result, failed>>

\* model, line 40: if self._model is None (no lock is held).
ModelCheck(t) ==
    /\ tpc[t] = "model_check"
    /\ tpc' = [tpc EXCEPT ![t] =
                 IF _model = None THEN "model_load" ELSE "model_return"]
    /\ UNCHANGED <<_model, loads, batch, local, got, result, failed>>

\* model, line 45, right-hand side: TextEmbedding(...) loads a model.
ModelConstruct(t) ==
    /\ tpc[t] = "model_load"
    /\ loads' = loads + 1
    /\ local' = [local EXCEPT ![t] = loads + 1]
    /\ tpc' = [tpc EXCEPT ![t] = "model_assign"]
    /\ UNCHANGED <<_model, batch, got, result, failed>>

\* model, line 45: TextEmbedding(...) raises; the exception leaves the
\* property and embed_texts and reaches the caller.
ModelConstructFail(t) ==
    /\ tpc[t] = "model_load"
    /\ _model' = ModelAfterFailedLoad(_model)
    /\ tpc' = [tpc EXCEPT ![t] = "raised"]
    /\ UNCHANGED <<loads, batch, local, got, result, failed>>

\* model, line 45, the store: self._model = <the new handle>.
ModelAssign(t) ==
    /\ tpc[t] = "model_assign"
    /\ _model' = local[t]
    /\ local' = [local EXCEPT ![t] = None]
    /\ tpc' = [tpc EXCEPT ![t] = "model_return"]
    /\ UNCHANGED <<loads, batch, got, result, failed>>

\* model, line 47: return self._model (read again).
ModelReturn(t) ==
    /\ tpc[t] = "model_return"
    /\ got' = [got EXCEPT ![t] = _model]
    /\ tpc' = [tpc EXCEPT ![t] = "embed"]
    /\ UNCHANGED <<_model, loads, batch, local, result, failed>>

\* embed_texts, lines 63-64: the vectors of the batch.
Embed(t) ==
    /\ tpc[t] = "embed"
    /\ result' = [result EXCEPT ![t] = EmbedWith(got[t], batch[t])]
    /\ got' = [got EXCEPT ![t] = None]
    /\ tpc' = [tpc EXCEPT ![t] = "returned"]
    /\ UNCHANGED <<_model, loads, batch, local, failed>>

\* The caller of a query thread takes the outcome; the thread is free for
\* its next call.
Finish(t) ==
    /\ tpc[t] \in {"returned", "raised"}
    /\ tpc' = [tpc EXCEPT ![t] = "idle"]
    /\ failed' = [failed EXCEPT ![t] = (tpc[t] = "raised")]
    /\ batch' = [batch EXCEPT ![t] = <<>>]
    /\ result' = [result EXCEPT ![t] = <<>>]
    /\ local' = [local EXCEPT ![t] = None]
    /\ got' = [got EXCEPT ![t] = None]
    /\ UNCHANGED <<_model, loads>>

\* ------------------------------------------- EmbeddingService.__new__
\* Lines 30 and 32: "cls._instance is None".
AlwaysNone(i) == TRUE

NoInstance(i) == i = None

\* Before line 80 has run: the class has no instance.
ClsInit ==
    /\ _instance = None
    /\ _lock = {}
    /\ slots = {}
    /\ created = 0
    /\ inst = [t \in Threads |-> None]
    /\ embedding_service = None

\* After line 80 has run: the instance is the first object made, it has
\* its _model attribute, and the module names it.
ClsImported ==
    /\ _instance = 1
    /\ _lock = {}
    /\ slots = {1}
    /\ created = 1
    /\ inst = [t \in Threads |-> None]
    /\ embedding_service = 1

\* Line 80, embedding_service = EmbeddingService(): the thread that
\* imports the module calls the class.  The import system lets no other
\* thread see the module, and so the class, before the import has ended.
Import ==
    /\ embedding_service = None
    /\ tpc[PipelineThread] = "idle"
    /\ tpc' = [tpc EXCEPT ![PipelineThread] = "new_check"]
    /\ UNCHANGED <<_model, loads, batch, local, got, result, failed,
                   cls_vars>>

\* Line 80, the assignment: the module-level name is bound.
ImportDone ==
    /\ embedding_service = None
    /\ tpc[PipelineThread] = "new_done"
    /\ embedding_service' = inst[PipelineThread]
    /\ inst' = [inst EXCEPT ![PipelineThread] = None]
    /\ tpc' = [tpc EXCEPT ![PipelineThread] = "idle"]
    /\ UNCHANGED <<_model, loads, batch, local, got, result, failed,
                   _instance, _lock, slots, created>>

\* The module is imported: its names can be used.
Imported == embedding_service # None

\* A thread calls EmbeddingService().
CallNew(t) ==
    /\ Imported
    /\ tpc[t] = "idle"
    /\ tpc' = [tpc EXCEPT ![t] = "new_check"]
    /\ UNCHANGED <<_model, loads, batch, local, got, result, failed,
                   cls_vars>>

\* __new__, line 30: if cls._instance is None (no lock is held).
NewCheck(t) ==
    /\ tpc[t] = "new_check"
    /\ tpc' = [tpc EXCEPT ![t] =
                 IF NoInstance(_instance) THEN "new_lock" ELSE "new_return"]
    /\ UNCHANGED <<_model, loads, batch, local, got, result, failed,
                   cls_vars>>

\* __new__, line 31: with cls._lock, the lock is acquired.
NewAcquire(t) ==
    /\ tpc[t] = "new_lock"
    /\ _lock = {}
    /\ _lock' = {t}
    /\ tpc' = [tpc EXCEPT ![t] = "new_check2"]
    /\ UNCHANGED <<_model, loads, batch, local, got, result, failed,
                   _instance, slots, created, inst, embedding_service>>

\* __new__, line 32: if cls._instance is None, under the lock; when it is
\* not, the with block ends and the lock is released.
NewCheck2(t) ==
    /\ tpc[t] = "new_check2"
    /\ IF NoInstance(_instance)
       THEN /\ tpc' = [tpc EXCEPT ![t] = "new_create"]
            /\ _lock' = _lock
       ELSE /\ tpc' = [tpc EXCEPT ![t] = "new_return"]
            /\ _lock' = {}
    /\ UNCHANGED <<_model, loads, batch, local, got, result, failed,
                   _instance, slots, created, inst, embedding_service>>

\* __new__, line 33: cls._instance = super().__new__(cls).  The new
\* object has no _model attribute yet.
NewCreate(t) ==
    /\ tpc[t] = "new_create"
    /\ created' = created + 1
    /\ _instance' = created + 1
    /\ tpc' = [tpc EXCEPT ![t] = "new_slot"]
    /\ UNCHANGED <<_model, loads, batch, local, got, result, failed,
                   _lock, slots, inst, embedding_service>>

\* __new__, line 34: cls._instance._model = None; the with block ends
\* and the lock is released.
NewSlot(t) ==
    /\ tpc[t] = "new_slot"
    /\ slots' = slots \cup {_instance}
    /\ _model' = None
    /\ _lock' = {}
    /\ tpc' = [tpc EXCEPT ![t] = "new_return"]
    /\ UNCHANGED <<loads, batch, local, got, result, failed,
                   _instance, created, inst, embedding_service>>

\* __new__, line 35: return cls._instance.
NewReturn(t) ==
    /\ tpc[t] = "new_return"
    /\ inst' = [inst EXCEPT ![t] = _instance]
    /\ tpc' = [tpc EXCEPT ![t] = "new_done"]
    /\ UNCHANGED <<_model, loads, batch, local, got, result, failed,
                   _instance, _lock, slots, created, embedding_service>>

\* The caller has taken the instance; the thread is free for its next
\* call.
NewDone(t) ==
    /\ Imported
    /\ tpc[t] = "new_done"
    /\ inst' = [inst EXCEPT ![t] = None]
    /\ tpc' = [tpc EXCEPT ![t] = "idle"]
    /\ UNCHANGED <<_model, loads, batch, local, got, result, failed,
                   _instance, _lock, slots, created, embedding_service>>

\* ============================================================ ingest.py
\* What the file named f of the PDF directory holds: nothing (no such
\* file), bytes PdfReader cannot parse, a PDF without extractable text, or
\* a readable PDF.  The readable PDF of file f holds the text f, and the
\* text c is a normalized text the splitter cuts into c chunks, so the
\* documents differ in text and in number of chunks.
Absent == [kind |-> "absent", text |-> 0]
Corrupt == [kind |-> "corrupt", text |-> 0]
NoText == [kind |-> "notext", text |-> 0]
Pdf(c) == [kind |-> "text", text |-> c]
FileStates(f) == {Absent, Corrupt, NoText, Pdf(f)}

Range(s) == {s[i] : i \in 1..Len(s)}

\* pdf_path.glob("*.pdf"): the files present, in an order the file system
\* chooses.
Listings(dir) ==
    LET present == {f \in FileNames : dir[f].kind # "absent"}
        n == Cardinality(present)
    IN  {s \in [1..n -> present] : \A i, j \in 1..n : s[i] = s[j] => i = j}

\* sorted(...), line 91: ascending by file name.
Unsorted(listing) == listing

RECURSIVE SortedSeq(_)
SortedSeq(S) ==
    IF S = {} THEN <<>>
    ELSE LET m == CHOOSE x \in S : \A y \in S : x <= y
         IN  <<m>> \o SortedSeq(S \ {m})

sorted(listing) == SortedSeq(Range(listing))

\* Lines 98-113, one iteration: "raise" when PdfReader or extract_text
\* throws, else the cleaned text (0 stands for the empty string).
ReadPdf(file) ==
    IF file.kind = "corrupt" THEN [raised |-> TRUE, cleaned |-> 0]
    ELSE [raised |-> FALSE, cleaned |-> file.text]

\* Lines 96-115: the loop over pdf_files.  The except clause is inside the
\* loop, so a file that raises is logged and the loop goes on.
RECURSIVE LoadLoopAbort(_, _)
LoadLoopAbort(dir, files) ==
    IF files = <<>> THEN <<>>
    ELSE LET r == ReadPdf(dir[Head(files)])
         IN  IF r.raised THEN <<>>
             ELSE (IF r.cleaned # 0 THEN <<<<Head(files), r.cleaned>>>> ELSE <<>>)
                  \o LoadLoopAbort(dir, Tail(files))

RECURSIVE LoadLoop(_, _)
LoadLoop(dir, files) ==
    IF files = <<>> THEN <<>>
    ELSE LET r == ReadPdf(dir[Head(files)])
         IN  (IF ~r.raised /\ r.cleaned # 0
              THEN <<<<Head(files), r.cleaned>>>> ELSE <<>>)
             \o LoadLoop(dir, Tail(files))

\* load_pdfs, lines 83-115, given whether the directory exists, what it
\* holds and the order glob lists it in: a list of (filepath, text).
load_pdfs(exists, dir, listing) ==
    IF ~exists THEN <<>>
    ELSE LET pdf_files == sorted(listing)
         IN  IF pdf_files = <<>> THEN <<>> ELSE LoadLoop(dir, pdf_files)

\* A string is the sequence of its characters.
DotPdf == <<".", "p", "d", "f">>
Unknown == <<"U", "n", "k", "n", "o", "w", "n">>
General == <<"G", "e", "n", "e", "r", "a", "l">>

\* str(pdf_file), line 99: the path of the file named f, the directory
\* first.  The f-th name in sorted order is f times "a" and ".pdf".
FilePath(f) == <<"d", "/">> \o [i \in 1..f |-> "a"] \o DotPdf

\* Path(filepath).name: what follows the last "/".
PathName(filepath) ==
    LET slashes == {i \in 1..Len(filepath) : filepath[i] = "/"}
        last == IF slashes = {} THEN 0
                ELSE CHOOSE i \in slashes : \A j \in slashes : j <= i
    IN  SubSeq(filepath, last + 1, Len(filepath))

\* Path(filepath).stem: the name without its last suffix; a dot that
\* starts or ends the name starts no suffix.
PathStem(filepath) ==
    LET name == PathName(filepath)
        dots == {i \in 1..Len(name) : name[i] = "."}
        last == IF dots = {} THEN 0
                ELSE CHOOSE i \in dots : \A j \in dots : j <= i
    IN  IF 1 < last /\ last < Len(name) THEN SubSeq(name, 1, last - 1)
        ELSE name

\* basename.split("__"), line 47: cut at each "__", scanning from the left.
RECURSIVE split(_)
split(basename) ==
    LET hits == {i \in 1..(Len(basename) - 1) :
                    basename[i] = "_" /\ basename[i + 1] = "_"}
    IN  IF hits = {} THEN <<basename>>
        ELSE LET i == CHOOSE h \in hits : \A g \in hits : h <= g
             IN  <<SubSeq(basename, 1, i - 1)>>
                 \o split(SubSeq(basename, i + 2, Len(basename)))

\* .replace("-", " ").replace("_", " "), lines 49-51.
replace_hyphens(part) ==
    [i \in 1..Len(part) |-> IF part[i] = "-" THEN " " ELSE part[i]]

replace(part) ==
    [i \in 1..Len(part) |-> IF part[i] \in {"-", "_"} THEN " " ELSE part[i]]

\* _parse_filename_metadata, lines 38-53: the record of the file name.
_parse_filename_metadata(filepath) ==
    LET basename == PathStem(filepath)
        parts == split(basename)
    IN  [law |-> IF Len(parts) >= 1 THEN replace(parts[1]) ELSE Unknown,
         section |-> IF Len(parts) >= 2 THEN replace(parts[2]) ELSE <<>>,
         category |-> IF Len(parts) >= 3 THEN replace(parts[3]) ELSE General,
         source |-> PathName(filepath)]

\* splitter.split_text(text), line 139: the chunks of a text, in order.
split_text(text) == [k \in 1..text |-> <<text, k>>]

\* chunk_documents, lines 134-145: parallel lists of chunk texts and of
\* metadata copies, document by document.
RECURSIVE ChunkTextsLastFirst(_)
ChunkTextsLastFirst(docs) ==
    IF docs = <<>> THEN <<>>
    ELSE ChunkTextsLastFirst(Tail(docs)) \o split_text(Head(docs)[2])

RECURSIVE ChunkTexts(_)
ChunkTexts(docs) ==
    IF docs = <<>> THEN <<>>
    ELSE split_text(Head(docs)[2]) \o ChunkTexts(Tail(docs))

RECURSIVE ChunkMetasPerDoc(_)
ChunkMetasPerDoc(docs) ==
    IF docs = <<>> THEN <<>>
    ELSE <<_parse_filename_metadata(FilePath(Head(docs)[1]))>>
         \o ChunkMetasPerDoc(Tail(docs))

RECURSIVE ChunkMetas(_)
ChunkMetas(docs) ==
    IF docs = <<>> THEN <<>>
    ELSE LET base_meta == _parse_filename_metadata(FilePath(Head(docs)[1]))
             chunks == split_text(Head(docs)[2])
         IN  [k \in 1..Len(chunks) |-> base_meta] \o ChunkMetas(Tail(docs))

chunk_documents(docs) ==
    [texts |-> ChunkTexts(docs), metadatas |-> ChunkMetas(docs)]

\* faiss.write_index / np.save, lines 175-177: the file is replaced by
\* the new content.
AppendFile(old, data) ==
    [present |-> TRUE, fresh |-> TRUE, data |-> old.data \o data]

WriteFile(old, data) == [present |-> TRUE, fresh |-> TRUE, data |-> data]

NoFile == [present |-> FALSE, fresh |-> FALSE, data |-> <<>>]

\* A build has ended: what is on disk is no longer of the running build.
Stale(dir) == [a \in Artifacts |-> [dir[a] EXCEPT !.fresh = FALSE]]
StaleSeen(s) == [a \in Artifacts |-> IF s[a] = "new" THEN "old" ELSE s[a]]

\* run_ingestion, lines 191-195: where the run goes after load_pdfs.
AlwaysChunk(docs) == "Chunking"

AfterLoad(docs) == IF docs = <<>> THEN "Empty" ELSE "Chunking"

\* What a run found in the index directory when it started; same: the
\* run before it was a completed run_ingestion over the same directory;
\* dir: the PDF directory existed.
NoPrev ==
    [present |-> FALSE, same |-> FALSE, n |-> 0, texts |-> <<>>,
     metadatas |-> <<>>, dir |-> TRUE]

RunInit ==
    /\ dir_exists \in BOOLEAN
    /\ pdf_dir = [f \in FileNames |-> Absent]
    /\ out_exists = FALSE
    /\ out_dir = [a \in Artifacts |-> NoFile]
    /\ pc = "Idle"
    /\ entry = "none"
    /\ documents = <<>>
    /\ texts = <<>>
    /\ metadatas = <<>>
    /\ embeddings = <<>>
    /\ last_ok = FALSE
    /\ prev = NoPrev
    /\ seen = [a \in Artifacts |-> "unread"]

\* No function of ingest.py is being called on its own.
FnIdle ==
    /\ fpc = "none"
    /\ arg = <<>>
    /\ ret = <<>>

\* The state after "import app.services.embedding_service": line 80 has
\* made the instance, the pipeline and the query threads start from here.
Init == SvcInit /\ ClsImported /\ RunInit /\ FnIdle

\* Between runs somebody adds, replaces or removes a file of the PDF
\* directory (creating the directory if need be).
ChangeCorpus ==
    /\ pc = "Idle"
    /\ \E f \in FileNames :
         \E st \in FileStates(f) :
         /\ st # pdf_dir[f]
         /\ pdf_dir' = [pdf_dir EXCEPT ![f] = st]
    /\ dir_exists' = TRUE
    /\ last_ok' = FALSE
    /\ UNCHANGED ext_vars
    /\ UNCHANGED <<svc_vars, out_exists, out_dir, run_vars, prev, seen>>

\* run_ingestion is called, line 189.
StartRun ==
    /\ pc = "Idle"
    /\ pc' = "Loading"
    /\ entry' = "run_ingestion"
    /\ prev' = [present |-> \A a \in Artifacts : out_dir[a].present,
                same |-> last_ok,
                n |-> Len(out_dir["index.faiss"].data),
                texts |-> out_dir["texts.npy"].data,
                metadatas |-> out_dir["metadatas.npy"].data,
                dir |-> dir_exists]
    /\ UNCHANGED ext_vars
    /\ UNCHANGED <<svc_vars, disk_vars, documents, texts, metadatas,
                   embeddings, last_ok, seen>>

\* load_pdfs, line 88: pdf_path.mkdir(parents=True, exist_ok=True) makes
\* the directory.
no_mkdir(exists) == exists

mkdir(exists) == TRUE

\* run_ingestion, lines 190-193: load_pdfs, which makes the directory it
\* does not find (lines 86-89), and the early return when it found
\* nothing.
LoadPdfs ==
    /\ pc = "Loading"
    /\ \E listing \in Listings(pdf_dir) :
         documents' = load_pdfs(dir_exists, pdf_dir, listing)
    /\ dir_exists' = IF dir_exists THEN dir_exists ELSE mkdir(dir_exists)
    /\ pc' = AfterLoad(documents')
    /\ UNCHANGED ext_vars
    /\ UNCHANGED <<svc_vars, pdf_dir, out_exists, out_dir, entry, texts,
                   metadatas, embeddings, hist_vars, seen>>

\* run_ingestion, line 195: chunk_documents; build_faiss_index is entered.
ChunkDocuments ==
    /\ pc = "Chunking"
    /\ texts' = chunk_documents(documents).texts
    /\ metadatas' = chunk_documents(documents).metadatas
    /\ pc' = "Embedding"
    /\ UNCHANGED ext_vars
    /\ UNCHANGED <<svc_vars, disk_vars, entry, documents, embeddings,
                   hist_vars, seen>>

\* build_faiss_index is called on its own with no chunks: the chunks
\* of an empty document list.  (run_ingestion never passes it an empty
\* list: load_pdfs returns only non-empty texts, and the splitter cuts a
\* non-empty text into at least one chunk.)
CallBuild ==
    /\ pc = "Idle"
    /\ texts' = chunk_documents(<<>>).texts
    /\ metadatas' = chunk_documents(<<>>).metadatas
    /\ entry' = "build_faiss_index"
    /\ pc' = "Embedding"
    /\ UNCHANGED ext_vars
    /\ UNCHANGED <<svc_vars, disk_vars, documents, embeddings, hist_vars,
                   seen>>

\* build_faiss_index, lines 161-166: the index directory is created, then
\* embedding_service.embed_texts(texts) is called.
BuildEmbedCall ==
    /\ pc = "Embedding"
    /\ tpc[PipelineThread] = "idle"
    /\ out_exists' = TRUE
    /\ tpc' = [tpc EXCEPT ![PipelineThread] = "embed_texts"]
    /\ batch' = [batch EXCEPT ![PipelineThread] = texts]
    /\ pc' = "EmbeddingWait"
    /\ UNCHANGED ext_vars
    /\ UNCHANGED <<_model, loads, local, got, result, failed, dir_exists,
                   pdf_dir, out_dir, entry, documents, texts, metadatas,
                   embeddings, hist_vars, seen>>

\* The pipeline thread is inside embed_texts (line 166): a step of the
\* service changes nothing of the pipeline or of the directories.
InBuild ==
    /\ pc = "EmbeddingWait"
    /\ UNCHANGED ext_vars
    /\ UNCHANGED <<disk_vars, run_vars, hist_vars, seen>>

\* build_faiss_index, lines 166-167: embed_texts returned the vectors.
BuildEmbedded ==
    /\ pc = "EmbeddingWait"
    /\ tpc[PipelineThread] = "returned"
    /\ embeddings' = result[PipelineThread]
    /\ Finish(PipelineThread)
    /\ pc' = "Indexing"
    /\ UNCHANGED ext_vars
    /\ UNCHANGED <<disk_vars, entry, documents, texts, metadatas,
                   hist_vars, seen>>

\* embed_texts raised (the model failed to load): the run aborts.
BuildEmbedRaised ==
    /\ pc = "EmbeddingWait"
    /\ tpc[PipelineThread] = "raised"
    /\ Finish(PipelineThread)
    /\ pc' = "Failed"
    /\ UNCHANGED ext_vars
    /\ UNCHANGED <<disk_vars, entry, documents, texts, metadatas,
                   embeddings, hist_vars, seen>>

\* build_faiss_index, lines 170-172: embeddings_np.shape[1] and the
\* index.  np.array([]) has shape (0,), so shape[1] raises IndexError.
BuildIndex ==
    /\ pc = "Indexing"
    /\ pc' = IF embeddings = <<>> THEN "Failed" ELSE "WriteIndex"
    /\ UNCHANGED ext_vars
    /\ UNCHANGED <<svc_vars, disk_vars, entry, documents, texts, metadatas,
                   embeddings, hist_vars, seen>>

\* The artifact a write position writes, what it writes, and what follows.
Target(p) ==
    CASE p = "WriteIndex" -> "index.faiss"
      [] p = "WriteTexts" -> "texts.npy"
      [] p = "WriteMetas" -> "metadatas.npy"

Payload(p) ==
    CASE p = "WriteIndex" -> embeddings
      [] p = "WriteTexts" -> texts
      [] p = "WriteMetas" -> metadatas

AfterWrite(p) ==
    CASE p = "WriteIndex" -> "WriteTexts"
      [] p = "WriteTexts" -> "WriteMetas"
      [] p = "WriteMetas" -> "Done"

WritePositions == {"WriteIndex", "WriteTexts", "WriteMetas"}

\* build_faiss_index, lines 175-177, one write; after the last one the
\* build returns and run_ingestion ends (line 197).
Write ==
    /\ pc \in WritePositions
    /\ out_dir' = [out_dir EXCEPT ![Target(pc)] = WriteFile(@, Payload(pc))]
    /\ pc' = AfterWrite(pc)
    /\ UNCHANGED ext_vars
    /\ UNCHANGED <<svc_vars, dir_exists, pdf_dir, out_exists, entry,
                   documents, texts, metadatas, embeddings, hist_vars, seen>>

\* One of the writes raises (no permission, disk full): the exception
\* leaves build_faiss_index and run_ingestion.  The failing write is
\* taken to leave its own file as it was.
WriteFail ==
    /\ pc \in WritePositions
    /\ pc' = "Failed"
    /\ UNCHANGED ext_vars
    /\ UNCHANGED <<svc_vars, disk_vars, entry, documents, texts, metadatas,
                   embeddings, hist_vars, seen>>

Terminal == {"Done", "Empty", "Failed"}

\* The call has ended; its locals are gone.  What the next build finds
\* on disk, and what a reader has read of it, is old to that build.
Return ==
    /\ pc \in Terminal
    /\ pc' = "Idle"
    /\ last_ok' = (pc = "Done" /\ entry = "run_ingestion")
    /\ entry' = "none"
    /\ documents' = <<>>
    /\ texts' = <<>>
    /\ metadatas' = <<>>
    /\ embeddings' = <<>>
    /\ prev' = NoPrev
    /\ out_dir' = Stale(out_dir)
    /\ seen' = StaleSeen(seen)
    /\ UNCHANGED ext_vars
    /\ UNCHANGED <<svc_vars, dir_exists, pdf_dir, out_exists>>

Next ==
    \/ ChangeCorpus
    \/ StartRun
    \/ LoadPdfs
    \/ ChunkDocuments
    \/ CallBuild
    \/ BuildEmbedCall
    \/ EmbedTextsEmpty(PipelineThread) /\ InBuild
    \/ EmbedTextsEnter(PipelineThread) /\ InBuild
    \/ ModelCheck(PipelineThread) /\ InBuild
    \/ ModelConstruct(PipelineThread) /\ InBuild
    \/ ModelConstructFail(PipelineThread) /\ InBuild
    \/ ModelAssign(PipelineThread) /\ InBuild
    \/ ModelReturn(PipelineThread) /\ InBuild
    \/ Embed(PipelineThread) /\ InBuild
    \/ BuildEmbedded
    \/ BuildEmbedRaised
    \/ BuildIndex
    \/ Write
    \/ WriteFail
    \/ Return

Spec == Init /\ [][Next]_vars

\* ------------------------------------------------------------ the reader
\* A query-time reader loads the three artifacts one at a time, in any
\* order, and notes for each whether the running build had written it.
ReadArtifact ==
    /\ \E a \in Artifacts :
         /\ seen[a] = "unread"
         /\ seen' = [seen EXCEPT ![a] =
                       IF ~out_dir[a].present THEN "absent"
                       ELSE IF out_dir[a].fresh THEN "new" ELSE "old"]
    /\ UNCHANGED ext_vars
    /\ UNCHANGED <<svc_vars, disk_vars, run_vars, hist_vars>>

\* The reader starts over.
ReadAgain ==
    /\ \A a \in Artifacts : seen[a] # "unread"
    /\ seen' = [a \in Artifacts |-> "unread"]
    /\ UNCHANGED ext_vars
    /\ UNCHANGED <<svc_vars, disk_vars, run_vars, hist_vars>>

NextReader == Next \/ ReadArtifact \/ ReadAgain

SpecReader == Init /\ [][NextReader]_vars

\* ---------------------------------------------- concurrent embed_* calls
\* A step of a query thread changes nothing outside the service.
InQuery == UNCHANGED <<disk_vars, run_vars, hist_vars, seen, ext_vars>>

NextEmbed ==
    \E t \in QueryThreads :
        \/ CallEmbedTexts(t) /\ InQuery
        \/ CallEmbedQuery(t) /\ InQuery
        \/ EmbedTextsEmpty(t) /\ InQuery
        \/ EmbedTextsEnter(t) /\ InQuery
        \/ ModelCheck(t) /\ InQuery
        \/ ModelConstruct(t) /\ InQuery
        \/ ModelConstructFail(t) /\ InQuery
        \/ ModelAssign(t) /\ InQuery
        \/ ModelReturn(t) /\ InQuery
        \/ Embed(t) /\ InQuery
        \/ Finish(t) /\ InQuery

SpecEmbed == Init /\ [][NextEmbed]_vars

\* ----------------------------- the import and concurrent constructions
\* A step inside EmbeddingService() or inside the service changes
\* nothing of the pipeline, of the directories or of the reader.
InNew == UNCHANGED <<disk_vars, run_vars, hist_vars, seen, fn_vars>>

InitNew == SvcInit /\ ClsInit /\ RunInit /\ FnIdle

\* The module is imported by one thread; then the query threads call
\* EmbeddingService() and the embed_* methods of the instance, in any
\* interleaving.
NextNew ==
    \/ Import /\ InNew
    \/ ImportDone /\ InNew
    \/ \E t \in Threads :
        \/ NewCheck(t) /\ InNew
        \/ NewAcquire(t) /\ InNew
        \/ NewCheck2(t) /\ InNew
        \/ NewCreate(t) /\ InNew
        \/ NewSlot(t) /\ InNew
        \/ NewReturn(t) /\ InNew
    \/ \E t \in QueryThreads :
        \/ CallNew(t) /\ InNew
        \/ NewDone(t) /\ InNew
        \/ Imported /\ CallEmbedTexts(t) /\ InQuery
        \/ Imported /\ CallEmbedQuery(t) /\ InQuery
        \/ EmbedTextsEmpty(t) /\ InQuery
        \/ EmbedTextsEnter(t) /\ InQuery
        \/ ModelCheck(t) /\ InQuery
        \/ ModelConstruct(t) /\ InQuery
        \/ ModelConstructFail(t) /\ InQuery
        \/ ModelAssign(t) /\ InQuery
        \/ ModelReturn(t) /\ InQuery
        \/ Embed(t) /\ InQuery
        \/ Finish(t) /\ InQuery

SpecNew == InitNew /\ [][NextNew]_vars

\* --------------------------------- _parse_filename_metadata on its own
\* The file names it is given: a stem of hyphens, underscores and letters
\* and the suffix ".pdf" (load_pdfs passes what glob("*.pdf") matched),
\* with or without the directory in front.
StemChars == {"a", "-", "_"}
Stems == UNION {[1..n -> StemChars] : n \in 0..MaxStem}
FilePaths == {dir \o stem \o DotPdf : dir \in {<<>>, <<"d", "/">>},
                                      stem \in Stems}

InitParse ==
    /\ SvcInit /\ ClsImported /\ RunInit
    /\ fpc = "parse"
    /\ arg \in FilePaths
    /\ ret = <<>>

\* _parse_filename_metadata(arg) is called and returns.
ParseFilename ==
    /\ fpc = "parse"
    /\ ret' = _parse_filename_metadata(arg)
    /\ fpc' = "parsed"
    /\ UNCHANGED <<svc_vars, disk_vars, run_vars, hist_vars, seen,
                   cls_vars, arg>>

NextParse == ParseFilename

SpecParse == InitParse /\ [][NextParse]_vars

\* ------------------------------------------- chunk_documents on its own
\* The metadata records as the objects they are.  An object is named
\* <<d, k>>: <<d, 0>> is the base_meta dict made for document d (line
\* 138), <<d, k>> the dict base_meta.copy() makes for its k-th chunk.  The
\* values of a record are strings, which nothing can change in place.
\* base_meta.copy(), line 142: a new dict with the entries of base_meta.
same_dict(base_meta, fresh) == base_meta

copy(base_meta, fresh) == fresh

\* all_metadatas, lines 140-142: the list of references to the records.
RECURSIVE MetaRefs(_, _)
MetaRefs(docs, d) ==
    IF d > Len(docs) THEN <<>>
    ELSE LET chunks == split_text(docs[d][2])
         IN  [k \in 1..Len(chunks) |-> copy(<<d, 0>>, <<d, k>>)]
             \o MetaRefs(docs, d + 1)

\* What each record made by the call holds when the call returns.
MetaHeap(docs) ==
    LET objects == {o \in (1..Len(docs)) \X (0..MaxFiles) :
                       o[2] <= Len(split_text(docs[o[1]][2]))}
    IN  [o \in objects |->
            _parse_filename_metadata(FilePath(docs[o[1]][1]))]

\* The document lists chunk_documents is given: any (filepath, text)
\* pairs in any order.
DocLists == UNION {[1..n -> FileNames \X (1..MaxFiles)] : n \in 0..MaxFiles}

InitChunk ==
    /\ SvcInit /\ ClsImported /\ RunInit
    /\ fpc = "chunk"
    /\ arg \in DocLists
    /\ ret = <<>>

\* chunk_documents(arg) is called and returns (lines 134-145).
ChunkCall ==
    /\ fpc = "chunk"
    /\ ret' = [texts |-> ChunkTexts(arg),
               metadatas |-> MetaRefs(arg, 1),
               heap |-> MetaHeap(arg)]
    /\ fpc' = "chunked"
    /\ UNCHANGED <<svc_vars, disk_vars, run_vars, hist_vars, seen,
                   cls_vars, arg>>

\* The caller assigns to a field of the metadata of one chunk:
\* metadatas[i][field] = "x".
MutateMeta ==
    /\ fpc = "chunked"
    /\ \E i \in 1..Len(ret.metadatas) :
         \E field \in {"law", "section", "category", "source"} :
            ret' = [ret EXCEPT !.heap[ret.metadatas[i]][field] = <<"x">>]
    /\ fpc' = "mutated"
    /\ UNCHANGED <<svc_vars, disk_vars, run_vars, hist_vars, seen,
                   cls_vars, arg>>

NextChunk == ChunkCall \/ MutateMeta

SpecChunk == InitChunk /\ [][NextChunk]_vars

\* ------------------------------------------ splitter.split_text on its own
\* RecursiveCharacterTextSplitter(chunk_size, chunk_overlap, separators,
\* length_function=len) of lines 127-132, with the defaults it is left
\* with: keep_separator=True, strip_whitespace=True.  A text is here the
\* sequence of its characters, each with its position in the document:
\* <<i, c>> is the character c at position i, so that a chunk tells which
\* characters of the document it holds.
Whitespace == {" ", "\n"}
separators == <<<<"\n", "\n">>, <<"\n">>, <<".", " ">>, <<" ">>, <<>>>>

Tagged(text) == [i \in 1..Len(text) |-> <<i, text[i]>>]

\* text.strip(): without its leading and trailing whitespace.
strip(text) ==
    LET keep == {i \in 1..Len(text) : text[i][2] \notin Whitespace}
    IN  IF keep = {} THEN <<>>
        ELSE SubSeq(text, CHOOSE i \in keep : \A j \in keep : i <= j,
                          CHOOSE i \in keep : \A j \in keep : j <= i)

\* The first place at or after from where separator occurs in text, or 0.
FirstAt(text, separator, from) ==
    LET hits == {i \in from..(Len(text) - Len(separator) + 1) :
                    \A k \in 1..Len(separator) :
                        text[i + k - 1][2] = separator[k]}
    IN  IF hits = {} THEN 0 ELSE CHOOSE i \in hits : \A j \in hits : i <= j

\* _split_text_with_regex(text, separator, keep_separator=True): the text
\* cut in front of each occurrence of the separator, so that a piece
\* other than the first starts with the separator; the empty separator
\* cuts between all characters; empty pieces are dropped.
RECURSIVE Pieces(_, _, _, _)
Pieces(text, separator, start, first) ==
    LET next == FirstAt(text, separator,
                        IF first THEN start ELSE start + Len(separator))
        piece == SubSeq(text, start, IF next = 0 THEN Len(text) ELSE next - 1)
    IN  (IF piece = <<>> THEN <<>> ELSE <<piece>>)
        \o (IF next = 0 THEN <<>> ELSE Pieces(text, separator, next, FALSE))

_split_text_with_regex(text, separator) ==
    IF separator = <<>> THEN [i \in 1..Len(text) |-> <<text[i]>>]
    ELSE Pieces(text, separator, 1, TRUE)

RECURSIVE Concat(_)
Concat(docs) == IF docs = <<>> THEN <<>> ELSE Head(docs) \o Concat(Tail(docs))

\* _join_docs(docs, ""): the pieces joined and stripped; nothing when
\* only whitespace is left.
_join_docs_first(docs) ==
    LET text == IF docs = <<>> THEN <<>> ELSE strip(Head(docs))
    IN  IF text = <<>> THEN <<>> ELSE <<text>>

_join_docs(docs) ==
    LET text == strip(Concat(docs))
    IN  IF text = <<>> THEN <<>> ELSE <<text>>

\* _merge_splits, the while loop: pieces are dropped from the front of
\* the chunk just emitted until what is left is no longer than the
\* overlap and leaves room for the piece of length len.
RECURSIVE Pop(_, _)
Pop(current_doc, len) ==
    LET total == Len(Concat(current_doc))
    IN  IF total > CHUNK_OVERLAP
           \/ (total + len > CHUNK_SIZE /\ total > 0)
        THEN Pop(Tail(current_doc), len)
        ELSE current_doc

\* _merge_splits(splits, ""): pieces are collected into a chunk until the
\* next would make it longer than chunk_size; the chunk is emitted and
\* its tail kept as the overlap that starts the next chunk.
RECURSIVE Merge(_, _, _, _)
Merge(splits, k, docs, current_doc) ==
    IF k > Len(splits) THEN docs \o _join_docs(current_doc)
    ELSE LET d == splits[k]
             total == Len(Concat(current_doc))
         IN  IF total + Len(d) > CHUNK_SIZE /\ current_doc # <<>>
             THEN Merge(splits, k + 1, docs \o _join_docs(current_doc),
                        Append(Pop(current_doc, Len(d)), d))
             ELSE Merge(splits, k + 1, docs, Append(current_doc, d))

_merge_splits(splits) == Merge(splits, 1, <<>>, <<>>)

\* _split_text, the choice of the separator: the first of the list that
\* occurs in the text (the empty one always does).
SeparatorIndex(text, seps) ==
    CHOOSE i \in 1..Len(seps) :
        /\ seps[i] = <<>> \/ FirstAt(text, seps[i], 1) # 0
        /\ \A j \in 1..(i - 1) :
              seps[j] # <<>> /\ FirstAt(text, seps[j], 1) = 0

\* RecursiveCharacterTextSplitter._split_text(text, separators): the text
\* is cut at the chosen separator; pieces shorter than chunk_size are
\* merged into chunks, a longer piece is split by the separators that
\* follow.
RECURSIVE _split_text(_, _)
RECURSIVE SplitLoop(_, _, _, _, _)
SplitLoop(splits, k, good_splits, final_chunks, new_separators) ==
    LET merged == IF good_splits = <<>> THEN <<>>
                  ELSE _merge_splits(good_splits)
    IN  IF k > Len(splits) THEN final_chunks \o merged
        ELSE IF Len(splits[k]) < CHUNK_SIZE
        THEN SplitLoop(splits, k + 1, Append(good_splits, splits[k]),
                       final_chunks, new_separators)
        ELSE SplitLoop(splits, k + 1, <<>>,
                       final_chunks \o merged
                         \o (IF new_separators = <<>> THEN <<splits[k]>>
                             ELSE _split_text(splits[k], new_separators)),
                       new_separators)

_split_text(text, seps) ==
    LET i == SeparatorIndex(text, seps)
        new_separators == IF seps[i] = <<>> THEN <<>>
                          ELSE SubSeq(seps, i + 1, Len(seps))
    IN  SplitLoop(_split_text_with_regex(text, seps[i]), 1, <<>>, <<>>,
                  new_separators)

\* splitter.split_text(text), line 139, character by character.
splitter_split_text(text) == _split_text(text, separators)

\* The texts load_pdfs passes on: what _clean_text returns (lines 68-73)
\* and is not empty (line 106): no three newlines in a row, no two
\* spaces in a row, no whitespace at either end.
TextChars == {"a", ".", " ", "\n"}
NormalizedTexts ==
    {t \in UNION {[1..n -> TextChars] : n \in 1..MaxText} :
        /\ t[1] \notin Whitespace
        /\ t[Len(t)] \notin Whitespace
        /\ \A i \in 1..(Len(t) - 1) : ~(t[i] = " " /\ t[i + 1] = " ")
        /\ \A i \in 1..(Len(t) - 2) :
              ~(t[i] = "\n" /\ t[i + 1] = "\n" /\ t[i + 2] = "\n")}

InitSplit ==
    /\ SvcInit /\ ClsImported /\ RunInit
    /\ fpc = "split"
    /\ arg \in NormalizedTexts
    /\ ret = <<>>

\* splitter.split_text(arg) is called and returns.
SplitText ==
    /\ fpc = "split"
    /\ ret' = splitter_split_text(Tagged(arg))
    /\ fpc' = "chunks"
    /\ UNCHANGED <<svc_vars, disk_vars, run_vars, hist_vars, seen,
                   cls_vars, arg>>

NextSplit == SplitText

SpecSplit == InitSplit /\ [][NextSplit]_vars

\* ================================================================ claims
\* embed_query(query): element [0] of what embed_texts([query]) returned.
embed_query_result(t) == result[t][1]

\* C1 (as claimed): threads that call embed_query / embed_texts with a
\* non-empty batch concurrently on the unloaded service load the model
\* exactly once: there is never a second load event, and every caller that
\* has its result has the vectors of its batch, in order, computed by that
\* one model.
C1_LoadedExactlyOnce ==
    /\ loads <= 1
    /\ \A t \in QueryThreads :
         (tpc[t] = "returned" /\ batch[t] # <<>>) =>
            /\ loads = 1
            /\ result[t] = EmbedWith(_model, batch[t])
            /\ embed_query_result(t) = [model |-> 1, text |-> batch[t][1]]

\* C2: a load that fails is raised to the caller whose call it was and
\* changes nothing in the service (self._model keeps its value: unloaded
\* stays unloaded); a call with a non-empty batch that finds the service
\* unloaded goes on to load the model, whether or not a load failed
\* before; and no call returns vectors that were not computed by a model
\* that was loaded.
C2_Step ==
    \A t \in QueryThreads :
        /\ (tpc[t] = "model_load" /\ tpc'[t] = "raised") =>
              /\ _model' = _model
              /\ loads' = loads
              /\ result'[t] = <<>>
        /\ (tpc[t] = "model_check" /\ tpc'[t] # "model_check"
              /\ _model = None) => tpc'[t] = "model_load"
        /\ (tpc[t] = "model_check" /\ tpc'[t] # "model_check"
              /\ _model # None) => _model \in 1..loads
        /\ (tpc'[t] = "returned" /\ batch'[t] # <<>>) =>
              \A i \in 1..Len(batch'[t]) :
                  /\ Len(result'[t]) = Len(batch'[t])
                  /\ result'[t][i].model \in 1..loads'

C2_FailedLoadIsRaisedAndRetried == [][C2_Step]_vars

\* C2 witness: the previous call of a thread ended with the load failure,
\* the service is still unloaded, and the thread's next call has reached
\* the load again.
C2_Witness ==
    \E t \in QueryThreads :
        failed[t] /\ tpc[t] = "model_load" /\ _model = None

\* C3 (as claimed): a reader that has read the three artifacts, all of
\* them present, has read them all from the same build: never one written
\* by the running build together with one from before it.
C3_ReaderSeesOneBuild ==
    (\A a \in Artifacts : seen[a] \in {"old", "new"}) =>
        (\A a, b \in Artifacts : seen[a] = seen[b])

\* C4 (as claimed): after a run that aborted with an error, nothing at the
\* destination is of the aborted run: the three artifacts are as they were
\* before it.
C4_NoPartialWrite ==
    pc = "Failed" => \A a \in Artifacts : ~out_dir[a].fresh

\* C5 (as claimed): a call that had no documents or no chunks has ended
\* without an error and has written no artifact.
C5_EmptyRunSucceeds ==
    (pc \in Terminal /\ texts = <<>>) =>
        /\ pc # "Failed"
        /\ \A a \in Artifacts : ~out_dir[a].fresh

\* The stage of the orchestrator's state machine a position belongs to.
Stage(p) ==
    CASE p \in {"Embedding", "EmbeddingWait"} -> "Embedding"
      [] p \in {"Indexing"} \cup WritePositions -> "Indexing"
      [] OTHER -> p

StageOrder ==
    {<<"Idle", "Loading">>, <<"Loading", "Chunking">>,
     <<"Chunking", "Embedding">>, <<"Embedding", "Indexing">>,
     <<"Indexing", "Done">>, <<"Loading", "Empty">>,
     <<"Embedding", "Failed">>, <<"Indexing", "Failed">>}

\* C6: a run of run_ingestion changes stage only along Idle, Loading,
\* Chunking, Embedding, Indexing, Done (or leaves Embedding or Indexing by
\* the error that aborts it); it goes from Loading to Empty exactly when
\* load_pdfs returned no document, and to Chunking only with documents.
C6_Step ==
    (entry' = "run_ingestion" /\ Stage(pc') # Stage(pc)) =>
        /\ <<Stage(pc), Stage(pc')>> \in StageOrder
        /\ (Stage(pc) = "Loading") =>
              ((pc' = "Empty") <=> (documents' = <<>>))

C6_StagesInOrder == [][C6_Step]_vars

\* C6 witness: a run of run_ingestion has gone through every stage.
C6_Witness ==
    pc = "Done" /\ entry = "run_ingestion" /\ Len(documents) = MaxFiles

\* C7: after a successful build there are as many chunk texts as metadata
\* records as embedding vectors, and each of the three artifacts on disk
\* has that many entries.
C7_EqualLengths ==
    pc = "Done" =>
        /\ Len(texts) = Len(metadatas)
        /\ Len(texts) = Len(embeddings)
        /\ \A a \in Artifacts :
             out_dir[a].present /\ Len(out_dir[a].data) = Len(texts)

\* C7 witness: a build of several documents, one of them of several
\* chunks, has completed.
C7_Witness ==
    pc = "Done" /\ Len(documents) >= 2 /\ Len(texts) > Len(documents)

\* The readable files of the PDF directory with their texts, by file name.
CorpusDocs ==
    LET ord == SortedSeq({f \in FileNames : pdf_dir[f].kind = "text"})
    IN  [i \in 1..Len(ord) |-> <<ord[i], pdf_dir[ord[i]].text>>]

\* C8: after a completed run_ingestion the three artifacts were all
\* written by this run and hold exactly the chunks of the present PDF
\* directory: nothing of what was there before.
C8_FullRebuild ==
    (pc = "Done" /\ entry = "run_ingestion") =>
        /\ \A a \in Artifacts : out_dir[a].present /\ out_dir[a].fresh
        /\ out_dir["texts.npy"].data = ChunkTexts(CorpusDocs)
        /\ out_dir["metadatas.npy"].data = ChunkMetas(CorpusDocs)
        /\ out_dir["index.faiss"].data =
              EmbedWith(_model, ChunkTexts(CorpusDocs))

\* C8 witness: a run has completed over a directory that held more
\* before: the artifacts it found were longer than the ones it left.
C8_Witness ==
    /\ pc = "Done" /\ entry = "run_ingestion"
    /\ prev.present
    /\ Len(prev.texts) > Len(out_dir["texts.npy"].data)

\* C9: a run of run_ingestion that follows a completed one over the same
\* unchanged directory leaves the same number of entries and the same
\* chunk texts and metadata, in the same order, as it found.
C9_Idempotent ==
    (pc = "Done" /\ entry = "run_ingestion" /\ prev.same) =>
        /\ Len(out_dir["index.faiss"].data) = prev.n
        /\ out_dir["texts.npy"].data = prev.texts
        /\ out_dir["metadatas.npy"].data = prev.metadatas

\* C9 witness: the second of two runs over the same directory of several
\* documents has completed.
C9_Witness ==
    /\ pc = "Done" /\ entry = "run_ingestion" /\ prev.same
    /\ Len(documents) >= 2

\* C10: what load_pdfs returned is exactly the files that parse and have
\* text, each once, with its text, in file-name order, wherever the files
\* that fail are; and a completed build holds metadata of those files only
\* and of each of them.
C10_SkipsUnparseable ==
    /\ (entry = "run_ingestion" /\ pc \notin {"Idle", "Loading"}) =>
          /\ \A i \in 1..Len(documents) :
                /\ pdf_dir[documents[i][1]] = Pdf(documents[i][2])
                /\ \A j \in 1..Len(documents) :
                      i < j => documents[i][1] < documents[j][1]
          /\ \A f \in FileNames :
                pdf_dir[f].kind = "text" =>
                    \E i \in 1..Len(documents) : documents[i][1] = f
    /\ (entry = "run_ingestion" /\ pc = "Done") =>
          {m.source : m \in Range(out_dir["metadatas.npy"].data)}
              = {PathName(FilePath(f)) :
                    f \in {g \in FileNames : pdf_dir[g].kind = "text"}}

\* C10 witness: a build has completed over a directory whose first file is
\* corrupt and whose later file is valid.
C10_Witness ==
    /\ pc = "Done" /\ entry = "run_ingestion"
    /\ \E f, g \in FileNames :
         f < g /\ pdf_dir[f] = Corrupt /\ pdf_dir[g].kind = "text"

\* C11: a call of embed_texts with the empty batch returns the empty list
\* in its one step, and no step of that call evaluates self.model: it
\* neither loads a model nor changes self._model, so a service that was
\* unloaded when the call started is unloaded when it returns.
C11_Step ==
    \A t \in QueryThreads :
        (tpc'[t] # tpc[t] /\ batch'[t] = <<>> /\ tpc[t] # "idle") =>
            /\ _model' = _model
            /\ loads' = loads
            /\ tpc[t] = "embed_texts" =>
                  (tpc'[t] = "returned" /\ result'[t] = <<>>)

C11_EmptyBatchLoadsNothing == [][C11_Step]_vars

\* C11 witness: a call with the empty batch has returned and the service
\* has never loaded a model.
C11_Witness ==
    \E t \in QueryThreads :
        /\ tpc[t] = "returned" /\ batch[t] = <<>> /\ result[t] = <<>>
        /\ _model = None /\ loads = 0

\* y is x with every hyphen and underscore turned into a space.
Spaced(x, y) ==
    /\ Len(y) = Len(x)
    /\ \A i \in 1..Len(x) :
         IF x[i] \in {"-", "_"} THEN y[i] = " " ELSE y[i] = x[i]

\* C14: for every file name _parse_filename_metadata returns a record of
\* law, section, category and source.  source is the file name without
\* its directory.  With the stem (the name without ".pdf") cut at its
\* first and second "__": law is what precedes the first cut, section
\* what lies between the cuts, category what follows the second cut up to
\* a third, each with its hyphens and underscores as spaces; without a
\* first cut section is "", without a second cut category is "General",
\* and a stem without "__" is the law as a whole.
C14_ParsesFilename ==
    fpc = "parsed" =>
        LET name == IF "/" \in Range(arg) THEN SubSeq(arg, 3, Len(arg))
                    ELSE arg
            stem == IF Len(name) > 4 THEN SubSeq(name, 1, Len(name) - 4)
                    ELSE name
            cuts == {i \in 1..(Len(stem) - 1) :
                        stem[i] = "_" /\ stem[i + 1] = "_"}
            Least(S) == CHOOSE i \in S : \A j \in S : i <= j
            End(S) == IF S = {} THEN Len(stem) ELSE Least(S) - 1
            after1 == {i \in cuts : i >= Least(cuts) + 2}
            after2 == {i \in after1 : i >= Least(after1) + 2}
        IN  /\ DOMAIN ret = {"law", "section", "category", "source"}
            /\ ret.source = name
            /\ Spaced(SubSeq(stem, 1, End(cuts)), ret.law)
            /\ IF cuts = {} THEN ret.section = <<>>
               ELSE Spaced(SubSeq(stem, Least(cuts) + 2, End(after1)),
                           ret.section)
            /\ IF cuts = {} \/ after1 = {} THEN ret.category = General
               ELSE Spaced(SubSeq(stem, Least(after1) + 2, End(after2)),
                           ret.category)

\* C14 witness: a name with a directory in front and three fields, the
\* first of them with a hyphen or an underscore, has been parsed.
C14_Witness ==
    /\ fpc = "parsed"
    /\ "/" \in Range(arg)
    /\ " " \in Range(ret.law)
    /\ ret.section # <<>>
    /\ ret.category # General

\* The metadata of the chunk at position i of what chunk_documents
\* returned, in the state r of the call.
MetaAt(r, i) == r.heap[r.metadatas[i]]

\* C12: an assignment to a field of the metadata of one chunk changes the
\* metadata of that chunk and of no other chunk, of the same document or
\* of another.
C12_Step ==
    (fpc = "chunked" /\ fpc' = "mutated") =>
        Cardinality({i \in 1..Len(ret.metadatas) :
                        MetaAt(ret', i) # MetaAt(ret, i)}) = 1

C12_MetadataNotShared == [][C12_Step]_vars

\* C12 witness: the metadata of one chunk of a document of several chunks
\* has been assigned to.
C12_Witness ==
    /\ fpc = "mutated"
    /\ Len(arg) = 1
    /\ Len(ret.metadatas) >= 2

\* The number of chunks of the documents before the d-th.
RECURSIVE ChunksBefore(_, _)
ChunksBefore(docs, d) ==
    IF d = 1 THEN 0
    ELSE ChunksBefore(docs, d - 1) + Len(split_text(docs[d - 1][2]))

\* C13: what chunk_documents returns holds, document after document in
\* input order, the chunks of each document in the order the splitter
\* gave them; each chunk is a chunk of one document's text, and the
\* metadata at its position is the metadata of that document's file name,
\* with the file name as source.
C13_MetadataAligned ==
    fpc = "chunked" =>
        /\ Len(ret.texts) = ChunksBefore(arg, Len(arg) + 1)
        /\ Len(ret.metadatas) = Len(ret.texts)
        /\ \A d \in 1..Len(arg) :
             \A k \in 1..Len(split_text(arg[d][2])) :
                LET i == ChunksBefore(arg, d) + k
                IN  /\ ret.texts[i] = split_text(arg[d][2])[k]
                    /\ MetaAt(ret, i) =
                          _parse_filename_metadata(FilePath(arg[d][1]))
                    /\ MetaAt(ret, i).source = PathName(FilePath(arg[d][1]))

\* C13 witness: two documents of different files and texts, the later
\* file name first and its document of several chunks, have been chunked.
C13_Witness ==
    /\ fpc = "chunked"
    /\ Len(arg) >= 2
    /\ arg[1][1] > arg[2][1]
    /\ arg[1][2] >= 2
    /\ arg[1][2] # arg[2][2]

\* The positions of the document the chunks hold between them.
Covered == UNION {{ret[c][j][1] : j \in 1..Len(ret[c])} : c \in 1..Len(ret)}

\* C15 (as claimed): every character of the normalized text of a
\* document is in at least one of its chunks.
C15_CoversAllText ==
    fpc = "chunks" => \A i \in 1..Len(arg) : i \in Covered

\* C15 (amended): every character of the normalized text of a document
\* that is not whitespace is in at least one of its chunks, and each chunk
\* is a run of consecutive characters of the text; the characters in no
\* chunk are spaces and newlines where one chunk ends or the next starts.
C15_CoversAllButWhitespace ==
    fpc = "chunks" =>
        /\ \A i \in 1..Len(arg) : arg[i] \notin Whitespace => i \in Covered
        /\ \A c \in 1..Len(ret) :
             /\ ret[c] # <<>>
             /\ \A j \in 1..Len(ret[c]) :
                  /\ ret[c][j] = <<ret[c][1][1] + j - 1,
                                   arg[ret[c][1][1] + j - 1]>>
        /\ \A i \in 1..Len(arg) :
             i \notin Covered =>
                \E c \in 1..Len(ret) :
                    /\ ret[c][1][1] > i
                    /\ \A j \in i..(ret[c][1][1] - 1) :
                          arg[j] \in Whitespace

\* C15 witness: a text has been split into several chunks, two of them
\* overlapping, and a space or newline of the text is in none.
C15_Witness ==
    /\ fpc = "chunks"
    /\ Len(ret) >= 2
    /\ \E i \in 1..Len(arg) : i \notin Covered
    /\ \E c, e \in 1..Len(ret) :
         c # e /\ \E j \in 1..Len(ret[c]) : \E k \in 1..Len(ret[e]) :
                     ret[c][j] = ret[e][k]

\* C16: a run of run_ingestion that did not find the PDF directory has
\* made it, has got no document from load_pdfs, and ends in Empty without
\* an error and without writing an artifact.
C16_MissingDirectoryIsEmpty ==
    (entry = "run_ingestion" /\ ~prev.dir /\ pc \notin {"Idle", "Loading"})
        => /\ pc = "Empty"
           /\ dir_exists
           /\ documents = <<>>
           /\ \A a \in Artifacts : ~out_dir[a].fresh

\* C16 witness: a run that started without the PDF directory has ended in
\* Empty and the directory exists.
C16_Witness ==
    /\ entry = "run_ingestion" /\ pc = "Empty"
    /\ ~prev.dir
    /\ dir_exists

\* C17 (as claimed): the handle a thread has got from the model property,
\* or has computed its vectors with, is the handle the service holds: a
\* handle that has been observed is never replaced by another.
C17_HandleNeverReplaced ==
    \A t \in QueryThreads :
        /\ got[t] # None => got[t] = _model
        /\ tpc[t] = "returned" =>
              \A i \in 1..Len(result[t]) : result[t][i].model = _model

\* What holds of the instances callers have received.
OneInstance ==
    /\ created <= 1
    /\ \A t \in Threads :
         tpc[t] = "new_done" =>
            /\ inst[t] # None
            /\ inst[t] = _instance
            /\ inst[t] \in slots
    /\ Imported =>
          /\ embedding_service = _instance
          /\ embedding_service \in slots
          /\ _lock = {}

\* C18: in every interleaving of EmbeddingService() calls with one another
\* and with embed_* calls, every caller receives the one instance the
\* class has made, that instance has its _model attribute when a caller
\* receives it, and no step makes a loaded model unloaded again.
C18_Step == OneInstance' /\ (_model # None => _model' # None)

C18_SingletonConstruction == [][C18_Step]_vars

\* C18 witness: two threads have each received the instance from
\* EmbeddingService() after the model was loaded, and it is still loaded.
C18_Witness ==
    /\ _model # None
    /\ \E t, u \in QueryThreads :
         /\ t # u
         /\ tpc[t] = "new_done" /\ tpc[u] = "new_done"
         /\ inst[t] = inst[u]

====
